---- MODULE Spec2Model ----
(***************************************************************************)
(* KUKA pick-and-place extension: the phase-clocked ExampleScenario        *)
(* (Kuka_updated/scenario.py) and the UIBuilder that drives it             *)
(* (ui_builder.py).                                                        *)
(*                                                                         *)
(* Fixed point: times are integer milliseconds, joint angles integer       *)
(* milliradians, velocities milliradians per second, the normalized        *)
(* progress t is in thousandths, cosines are in ten-thousandths.           *)
(* Divisions round down; every step, phase time and reading of the model   *)
(* is chosen so that t is a multiple of 1/8, where the cosine is tabulated.*)
(*                                                                         *)
(* The simulator objects (articulation, cube, world, timeline, widgets)    *)
(* are host handles: the model keeps what the code reads from them         *)
(* (num_dof, the joint reading, the widgets' enabled/text state) and       *)
(* records in out the calls made on them.  _initial_cube_position is       *)
(* stored by setup_scenario and never read, so it is left out.  A handler  *)
(* is callable whether or not the button bound to it is enabled, except    *)
(* for the state button, whose clicks need it enabled.                     *)
(***************************************************************************)
EXTENDS Integers, Sequences, FiniteSets, TLC

VARIABLES
    scenario,   \* the ExampleScenario object held by UIBuilder._scenario
    ui,         \* the UIBuilder's fields, its widgets and the host timeline
    out,        \* observable effects of the last call: values, calls, prints
    remembered, \* observer: one earlier command, kept for comparison
    blocking    \* the blocking ExampleScenario of senario.py and its scene

vars == <<scenario, ui, out, remembered, blocking>>

None == "None"

\* an articulation handle (None, or a robot with num_dof joints)
NoneArt == [is_none |-> TRUE, num_dof |-> 0]
Art(n) == [is_none |-> FALSE, num_dof |-> n]

\* ------------------------------------------------------------------ bounds
\* _time is capped at MaxTimeHalfSec * 500 ms, and negative steps may pull
\* _time and _phase_time down to -MaxNegHalfSec * 500 ms.
MaxTimeHalfSec == 28
MaxNegHalfSec == 2
\* step values the host passes (ms), current joint readings (mrad), DOF counts
StepSamples == {-500, 0, 500, 2000, 4500}
CurValues == {0, 1000}
DofSamples == {1, 6, 7}
\* in the runs with a host that never stops, _time is capped at
\* MaxLiveHalfSec * 500 ms; the positive steps that host passes
MaxLiveHalfSec == 77
PositiveSteps == {1000, 4500}
\* the step values of the two compared runs
DetSteps == {500, 2000, 4500}

\* ------------------------------------------------------- program constants
\* _phase_duration = 2.0 s, max_velocity = 2.0 rad/s, the step floor 0.001 s
PhaseDuration == 2000
MaxVelocity == 2000
MinStep == 1

\* ----------------------------------------------------------------- helpers
Min(a, b) == IF a <= b THEN a ELSE b
Max(a, b) == IF a >= b THEN a ELSE b

\* np.zeros(num_dof)
Zeros(n) == [i \in 1..n |-> 0]

\* list[:num_dof]
Sliced(vals, n) == SubSeq(vals, 1, Min(n, Len(vals)))

\* numpy broadcasting of two 1-d arrays: equal lengths, or one of length 1
Broadcastable(a, b) == Len(a) = Len(b) \/ Len(a) = 1 \/ Len(b) = 1

BLen(a, b) == Max(Len(a), Len(b))
BAt(a, i) == IF Len(a) = 1 THEN a[1] ELSE a[i]

\* the joint configurations before setup_scenario (all None)
NoPositions ==
    [is_none |-> TRUE, home |-> <<>>, pre_grasp |-> <<>>, grasp |-> <<>>,
     lift |-> <<>>, place |-> <<>>]

\* the joint configurations setup_scenario stores
Configs(n) ==
    [is_none   |-> FALSE,
     home      |-> Zeros(n),
     pre_grasp |-> Sliced(<<0, -500, 500, 0, 500, 0>>, n),
     grasp     |-> Sliced(<<0, -300, 300, 0, 800, 0>>, n),
     lift      |-> Sliced(<<0, -500, 500, 0, 500, 0>>, n),
     place     |-> Sliced(<<1000, -300, 300, 0, 800, 0>>, n)]

\* cos(k*pi/8) in ten-thousandths, k = 0..15
CosTable ==
    <<10000, 9239, 7071, 3827, 0, -3827, -7071, -9239,
      -10000, -9239, -7071, -3827, 0, 3827, 7071, 9239>>

\* np.cos(t * np.pi) for t a multiple of 1/8 (t in thousandths)
CosPi(tm) == CosTable[((tm \div 125) % 16) + 1]

\* an easing that overshoots: (1 - cos(2*t*pi)) / 2 rises to 1 at t = 1/2
\* and falls back to 0 at t = 1
SmoothT2FullPeriod(tm) == 10000 - CosPi(2 * tm)

\* smooth_t = (1 - cos(t*pi)) / 2, as the numerator over 20000
SmoothT2(tm) == 10000 - CosPi(tm)

\* _interpolate_positions: start + (end - start) * smooth_t; a shape
\* mismatch raises ValueError (ok = FALSE)
InterpolatePositions(start, end, tm) ==
    IF Broadcastable(start, end)
    THEN [ok  |-> TRUE,
          val |-> [i \in 1..BLen(start, end) |->
                     BAt(start, i)
                     + (((BAt(end, i) - BAt(start, i)) * SmoothT2(tm))
                        \div 20000)]]
    ELSE [ok |-> FALSE, val |-> <<>>]

\* a progress that runs from 1 down to 0 over the phase
ProgressFromEnd(pt) ==
    Min(((PhaseDuration - pt) * 1000) \div PhaseDuration, 1000)

\* t = min(self._phase_time / self._phase_duration, 1.0)
Progress(pt) == Min((pt * 1000) \div PhaseDuration, 1000)

\* the chain with phase 4 starting from the grasp instead of the lift pose
ExecTargetWrongStart(ph, pos, tm) ==
    CASE ph = 0 -> InterpolatePositions(pos.home, pos.pre_grasp, tm)
      [] ph = 1 -> InterpolatePositions(pos.pre_grasp, pos.grasp, tm)
      [] ph = 2 -> [ok |-> TRUE, val |-> pos.grasp]
      [] ph = 3 -> InterpolatePositions(pos.grasp, pos.lift, tm)
      [] ph = 4 -> InterpolatePositions(pos.grasp, pos.place, tm)
      [] ph = 5 -> [ok |-> TRUE, val |-> pos.place]
      [] ph = 6 -> InterpolatePositions(pos.place, pos.home, tm)
      [] OTHER  -> [ok |-> TRUE, val |-> pos.home]

\* the if/elif chain of _execute_phase that picks the target
ExecTarget(ph, pos, tm) ==
    CASE ph = 0 -> InterpolatePositions(pos.home, pos.pre_grasp, tm)
      [] ph = 1 -> InterpolatePositions(pos.pre_grasp, pos.grasp, tm)
      [] ph = 2 -> [ok |-> TRUE, val |-> pos.grasp]
      [] ph = 3 -> InterpolatePositions(pos.grasp, pos.lift, tm)
      [] ph = 4 -> InterpolatePositions(pos.lift, pos.place, tm)
      [] ph = 5 -> [ok |-> TRUE, val |-> pos.place]
      [] ph = 6 -> InterpolatePositions(pos.place, pos.home, tm)
      [] OTHER  -> [ok |-> TRUE, val |-> pos.home]

\* a clip that forgets the lower bound
ClipUpperOnly(v, lo, hi) == IF v > hi THEN hi ELSE v

\* np.clip(v, lo, hi), one component
Clip(v, lo, hi) == IF v < lo THEN lo ELSE IF v > hi THEN hi ELSE v

\* velocity = clip((target - current) / max(step, 0.001), -2.0, 2.0)
ExecVelocity(target, cur, step) ==
    [i \in 1..BLen(target, cur) |->
        Clip(((BAt(target, i) - BAt(cur, i)) * 1000) \div Max(step, MinStep),
             -MaxVelocity, MaxVelocity)]

\* the record of a call that did nothing observable
NoOut ==
    [op |-> "none", step |-> 0, has_t |-> FALSE, t |-> 0,
     has_target |-> FALSE, target |-> <<>>, velocity |-> <<>>,
     joints_set |-> <<>>, calls |-> <<>>, printed |-> <<>>, raised |-> "none"]

\* _execute_phase holding the current reading, not the stored pose, in the
\* two dwell phases
ExecutePhaseHoldsCurrent(ph, pt, pos, step, cur) ==
    LET tm  == Progress(pt)
        tgt == IF ph \in {2, 5} THEN [ok |-> TRUE, val |-> cur]
               ELSE ExecTarget(ph, pos, tm)
        base == [NoOut EXCEPT !.step = step, !.has_t = TRUE, !.t = tm,
                              !.calls = <<"get_joint_positions">>]
    IN  IF ~tgt.ok
        THEN [base EXCEPT !.raised = "ValueError"]
        ELSE IF ~Broadcastable(tgt.val, cur)
        THEN [base EXCEPT !.has_target = TRUE, !.target = tgt.val,
                          !.raised = "ValueError"]
        ELSE [base EXCEPT !.has_target = TRUE, !.target = tgt.val,
                          !.velocity = ExecVelocity(tgt.val, cur, step),
                          !.calls = <<"get_joint_positions", "apply_action">>]

\* _execute_phase(step) with the robot reading cur: what it computes and
\* which simulator calls it makes, up to the first exception
ExecutePhase(ph, pt, pos, step, cur) ==
    LET tm  == Progress(pt)
        tgt == ExecTarget(ph, pos, tm)
        base == [NoOut EXCEPT !.step = step, !.has_t = TRUE, !.t = tm,
                              !.calls = <<"get_joint_positions">>]
    IN  IF ~tgt.ok
        THEN [base EXCEPT !.raised = "ValueError"]
        ELSE IF ~Broadcastable(tgt.val, cur)
        THEN [base EXCEPT !.has_target = TRUE, !.target = tgt.val,
                          !.raised = "ValueError"]
        ELSE [base EXCEPT !.has_target = TRUE, !.target = tgt.val,
                          !.velocity = ExecVelocity(tgt.val, cur, step),
                          !.calls = <<"get_joint_positions", "apply_action">>]

\* _update_cube_position reads joint_positions[0] and [1] and sets the pose
UpdateCubePosition(o, cur) ==
    IF Len(cur) < 2
    THEN [o EXCEPT !.calls = Append(@, "get_joint_positions"),
                   !.raised = "IndexError"]
    ELSE [o EXCEPT !.calls = @ \o <<"get_joint_positions", "set_world_pose">>]

\* a grasp flag released one phase late, on entering phase 6
GraspedAfterLateRelease(ph, g) ==
    IF ph = 2 THEN TRUE ELSE IF ph = 6 THEN FALSE ELSE g

\* _cube_grasped after the transition into phase ph
GraspedAfter(ph, g) == IF ph = 2 THEN TRUE ELSE IF ph = 5 THEN FALSE ELSE g

\* completion declared one phase late
CompletesLate(ph) == ph >= 8
CompletesAfterSeven(ph) == ph > 7

\* the phase at which update_scenario declares the trajectory complete
Completes(ph) == ph >= 7

\* the branch of update_scenario's if/elif chain taken on entering phase
\* ph: the message it prints ("" when no branch matches)
PhaseMessage(ph) ==
    CASE ph = 1 -> "Phase 1: Moving to grasp position"
      [] ph = 2 -> "Phase 2: Grasping cube"
      [] ph = 3 -> "Phase 3: Lifting cube"
      [] ph = 4 -> "Phase 4: Moving to place position"
      [] ph = 5 -> "Phase 5: Placing cube"
      [] ph = 6 -> "Phase 6: Returning home"
      [] OTHER  -> IF Completes(ph) THEN "Pick and Place Complete!" ELSE ""

\* a phase counter that skips a value
NextPhaseSkips(ph) == ph + 2

\* self._phase += 1
NextPhase(ph) == ph + 1

\* a transition test that never fires
PhaseElapsedNever(pt) == FALSE

\* a transition test that misses the exact end of the phase
PhaseElapsedStrict(pt) == pt > PhaseDuration

\* the phase-transition test of update_scenario
PhaseElapsed(pt) == pt >= PhaseDuration

\* ------------------------------------------------- ExampleScenario methods
\* ExampleScenario.__init__
NewScenario ==
    [object |-> None, articulation |-> NoneArt, running_scenario |-> FALSE,
     time |-> 0, phase |-> 0, phase_time |-> 0, cube_grasped |-> FALSE,
     positions |-> NoPositions]

\* setup_scenario(articulation, object_prim): the object afterwards
Setup(s, art, obj) ==
    [s EXCEPT !.articulation = art, !.object = obj,
              !.running_scenario = TRUE, !.phase = 0, !.phase_time = 0,
              !.cube_grasped = FALSE, !.positions = Configs(art.num_dof)]

\* what setup_scenario calls and prints
SetupOut(art) ==
    [NoOut EXCEPT !.op = "setup_scenario",
                  !.joints_set = Configs(art.num_dof).home,
                  !.calls = <<"get_world_pose", "set_joint_positions">>,
                  !.printed = <<"Pick and Place Scenario Started",
                                "Phase 0: Moving to pre-grasp position">>]

\* a teardown that leaves the clock _time running on
TeardownKeepsClock(s) ==
    [s EXCEPT !.phase_time = 0, !.phase = 0, !.object = None,
              !.articulation = NoneArt, !.running_scenario = FALSE,
              !.cube_grasped = FALSE]

\* teardown_scenario(): the object afterwards
Teardown(s) ==
    [s EXCEPT !.time = 0, !.phase_time = 0, !.phase = 0, !.object = None,
              !.articulation = NoneArt, !.running_scenario = FALSE,
              !.cube_grasped = FALSE]

\* update_scenario(step) with the robot reading cur: the object afterwards
\* (s) and the effects of the call (o)
Update(s, step, cur) ==
    IF ~s.running_scenario
    THEN [s |-> s, o |-> [NoOut EXCEPT !.op = "update_scenario", !.step = step]]
    ELSE
      LET s1  == [s EXCEPT !.time = @ + step, !.phase_time = @ + step]
          adv == PhaseElapsed(s1.phase_time)
          s2  == IF adv
                 THEN [s1 EXCEPT !.phase = NextPhase(@), !.phase_time = 0,
                                 !.cube_grasped =
                                     GraspedAfter(NextPhase(s1.phase), @)]
                 ELSE s1
          msg == IF adv /\ PhaseMessage(s2.phase) # ""
                 THEN <<PhaseMessage(s2.phase)>>
                 ELSE <<>>
      IN  IF adv /\ Completes(s2.phase)
          THEN [s |-> [s2 EXCEPT !.running_scenario = FALSE],
                o |-> [NoOut EXCEPT !.op = "update_scenario", !.step = step,
                                    !.printed = msg]]
          ELSE
            LET e  == ExecutePhase(s2.phase, s2.phase_time, s2.positions,
                                   step, cur)
                e2 == IF e.raised = "none" /\ s2.cube_grasped
                      THEN UpdateCubePosition(e, cur)
                      ELSE e
            IN  [s |-> s2,
                 o |-> [e2 EXCEPT !.op = "update_scenario", !.printed = msg]]

\* the reading get_joint_positions returns for a robot with n joints
Reading(n, c) == [i \in 1..n |-> c]

\* the update stays within the model's time bounds
InBounds(s, step) ==
    \/ ~s.running_scenario
    \/ /\ s.time + step <= MaxTimeHalfSec * 500
       /\ s.time + step >= -(MaxNegHalfSec * 500)
       /\ s.phase_time + step >= -(MaxNegHalfSec * 500)

\* ----------------------------------------------------------- UIBuilder
\* UIBuilder.__init__ / _on_init, before build_ui
InitUI ==
    [built |-> FALSE, articulation |-> NoneArt, cuboid |-> None,
     world |-> None, btn_enabled |-> FALSE, btn_state |-> "A",
     reset_btn_enabled |-> FALSE, timeline_playing |-> FALSE]

\* _enable_reset_button(enabled): looks the window up and does nothing
EnableResetButton(u, enabled) == u

\* _reset_scenario without its None check
ResetScenarioUnguarded(u, s) ==
    [s |-> Setup(Teardown(s), u.articulation, u.cuboid),
     o |-> [SetupOut(u.articulation) EXCEPT
              !.calls = <<"teardown_scenario", "setup_scenario">> \o @]]

\* _reset_scenario(): the scenario afterwards and the effects
ResetScenarioResult(u, s) ==
    IF u.articulation.is_none \/ u.cuboid = None
    THEN [s |-> s,
          o |-> [NoOut EXCEPT
                   !.printed = <<"Warning: Cannot reset scenario - objects not loaded">>]]
    ELSE [s |-> Setup(Teardown(s), u.articulation, u.cuboid),
          o |-> [SetupOut(u.articulation) EXCEPT
                   !.calls = <<"teardown_scenario", "setup_scenario">> \o @]]

\* ------------------------------ the blocking ExampleScenario (senario.py)
\* _cube_paths, in list order
CubePaths ==
    <<"/World/Cubes/Pickup_A", "/World/Cubes/Pickup_B",
      "/World/Cubes/Pickup_C", "/World/Cubes/Pickup_D">>

\* _target_positions, in millimetres
TargetPositions ==
    <<<<500, -300, 800>>, <<500, -100, 800>>,
      <<500, 100, 800>>, <<500, 300, 800>>>>

\* world positions a cube may have when the scenario object is constructed
PoseSamples == {<<600, 300, 300>>, <<500, -300, 800>>}

\* the position of update_scenario's loop, the scene it acts on (the fixed
\* joints between robot and cubes, the cubes' world poses) and the last
\* command given to the arm.  The pose of a cube is read only before it is
\* attached, so the motion of an attached cube is left out.
BlockingScenario(n, poses) ==
    [pc |-> "idle", i |-> 0, last |-> "none", num_joints |-> n,
     joints |-> {}, pose |-> poses, moved_to |-> <<>>, action |-> <<>>]

NewBlocking == BlockingScenario(6, [k \in 1..4 |-> <<600, 300, 300>>])

\* _move_arm_to(position): the same dummy joint target for every position
MoveArmTo(b, position) ==
    [b EXCEPT !.moved_to = position,
              !.action = [j \in 1..b.num_joints |-> 500]]

\* a place that sets the pose and leaves the joint
PlaceCubeKeepsJoint(b, k, position) == [b EXCEPT !.pose[k] = position]

\* _pick_cube(cube): create_fixed_joint(robot_prim, cube_prim)
PickCube(b, k) == [b EXCEPT !.joints = @ \cup {k}]

\* _place_cube(cube, position): remove_fixed_joint, then set_world_pose
PlaceCube(b, k, position) ==
    [b EXCEPT !.joints = @ \ {k}, !.pose[k] = position]

\* ------------------------------------------------------------------ state
NoMemory ==
    [set |-> FALSE, positions |-> NoPositions, phase |-> 0, phase_time |-> 0,
     step |-> 0, target |-> <<>>]

Init ==
    /\ scenario = NewScenario
    /\ ui = InitUI
    /\ out = NoOut
    /\ remembered = NoMemory
    /\ blocking = NewBlocking

\* ------------------------------------------- calls on the scenario object
\* scenario.setup_scenario(articulation, object_prim), robot with n joints
SetupScenario(n) ==
    /\ scenario' = Setup(scenario, Art(n), "cuboid")
    /\ out' = SetupOut(Art(n))
    /\ UNCHANGED <<ui, remembered, blocking>>

\* scenario.teardown_scenario()
TeardownScenario ==
    /\ scenario' = Teardown(scenario)
    /\ out' = [NoOut EXCEPT !.op = "teardown_scenario"]
    /\ UNCHANGED <<ui, remembered, blocking>>

\* an update whose clock _time advances whether or not the scenario runs
UpdateScenarioClockNeverStops(step, c) ==
    /\ InBounds(scenario, step)
    /\ LET r == Update(scenario, step,
                       Reading(scenario.articulation.num_dof, c))
       IN  /\ scenario' = [r.s EXCEPT !.time = scenario.time + step]
           /\ out' = r.o
    /\ UNCHANGED <<ui, remembered, blocking>>

\* scenario.update_scenario(step), joints all reading c
UpdateScenario(step, c) ==
    /\ InBounds(scenario, step)
    /\ LET r == Update(scenario, step,
                       Reading(scenario.articulation.num_dof, c))
       IN  scenario' = r.s /\ out' = r.o
    /\ UNCHANGED <<ui, remembered, blocking>>

\* ------------------------------------------------------ UIBuilder handlers
\* build_ui(): LOAD, RESET (disabled) and the Run Scenario state button
BuildUI ==
    /\ ui' = [ui EXCEPT !.built = TRUE, !.btn_enabled = FALSE,
                        !.btn_state = "A", !.reset_btn_enabled = FALSE]
    /\ out' = [NoOut EXCEPT !.op = "build_ui"]
    /\ UNCHANGED <<scenario, remembered, blocking>>

\* _on_load_world(): LOAD clicked, the robot asset has n joints
OnLoadWorld(n) ==
    /\ ui.built
    /\ LET u1 == [ui EXCEPT !.cuboid = "cuboid", !.articulation = Art(n),
                            !.world = "World"]
           r  == ResetScenarioResult(u1, scenario)
           u2 == [u1 EXCEPT !.btn_state = "A", !.btn_enabled = TRUE]
       IN  /\ ui' = EnableResetButton(u2, TRUE)
           /\ scenario' = r.s
           /\ out' = [r.o EXCEPT
                        !.op = "_on_load_world",
                        !.calls = <<"create_new_stage", "add_reference_to_stage",
                                    "World.reset">> \o @
                                  \o <<"btn.reset", "_enable_reset_button">>,
                        !.printed = <<"Loading KUKA Pick and Place Scenario...">>
                                    \o @ \o <<"KUKA Pick and Place Ready!">>]
    /\ UNCHANGED <<remembered, blocking>>

\* _on_reset_world(): the RESET button's clicked_fn
OnResetWorld ==
    /\ IF ui.world = None
       THEN /\ out' = [NoOut EXCEPT !.op = "_on_reset_world",
                                    !.printed = <<"World not loaded yet!">>]
            /\ UNCHANGED <<ui, scenario>>
       ELSE LET r == ResetScenarioResult(ui, scenario)
            IN  /\ scenario' = r.s
                /\ ui' = [ui EXCEPT !.btn_state = "A", !.btn_enabled = TRUE]
                /\ out' = [r.o EXCEPT
                             !.op = "_on_reset_world",
                             !.calls = <<"World.reset">> \o @ \o <<"btn.reset">>,
                             !.printed = <<"Resetting world...">> \o @
                                         \o <<"World reset complete!">>]
    /\ UNCHANGED <<remembered, blocking>>

\* _reset_scenario() called on its own
ResetScenario ==
    /\ LET r == ResetScenarioResult(ui, scenario)
       IN  scenario' = r.s /\ out' = [r.o EXCEPT !.op = "_reset_scenario"]
    /\ UNCHANGED <<ui, remembered, blocking>>

\* the state button clicked while it shows RUN: _on_run_scenario_a_text
RunClickA ==
    /\ ui.built /\ ui.btn_enabled /\ ui.btn_state = "A"
    /\ ui' = [ui EXCEPT !.btn_state = "B", !.timeline_playing = TRUE]
    /\ out' = [NoOut EXCEPT !.op = "_on_run_scenario_a_text",
                            !.calls = <<"timeline.play">>,
                            !.printed = <<">>> Starting Pick and Place <<<">>]
    /\ UNCHANGED <<scenario, remembered, blocking>>

\* the state button clicked while it shows STOP: _on_run_scenario_b_text
RunClickB ==
    /\ ui.built /\ ui.btn_enabled /\ ui.btn_state = "B"
    /\ ui' = [ui EXCEPT !.btn_state = "A", !.timeline_playing = FALSE]
    /\ out' = [NoOut EXCEPT !.op = "_on_run_scenario_b_text",
                            !.calls = <<"timeline.pause">>,
                            !.printed = <<">>> Stopping Scenario <<<">>]
    /\ UNCHANGED <<scenario, remembered, blocking>>

\* on_timeline_event(STOP): the host timeline was stopped
OnTimelineStop ==
    /\ IF ui.built
       THEN /\ ui' = [ui EXCEPT !.btn_state = "A", !.btn_enabled = FALSE,
                                !.timeline_playing = FALSE]
            /\ out' = [NoOut EXCEPT !.op = "on_timeline_event",
                                    !.calls = <<"btn.reset">>]
       ELSE /\ ui' = [ui EXCEPT !.timeline_playing = FALSE]
            /\ out' = [NoOut EXCEPT !.op = "on_timeline_event",
                                    !.raised = "AttributeError"]
    /\ UNCHANGED <<scenario, remembered, blocking>>

\* a _reset_extension that forgets the state button
OnStageOpenedKeepsButton ==
    /\ ui' = [ui EXCEPT !.articulation = NoneArt, !.cuboid = None,
                        !.world = None]
    /\ scenario' = NewScenario
    /\ out' = [NoOut EXCEPT
                 !.op = "on_stage_event",
                 !.calls = IF ui.world # None THEN <<"clear_instance">>
                           ELSE <<>>]
    /\ UNCHANGED <<remembered, blocking>>

\* on_stage_event(OPENED): _reset_extension()
OnStageOpened ==
    /\ ui' = [ui EXCEPT !.articulation = NoneArt, !.cuboid = None,
                        !.world = None, !.btn_state = "A",
                        !.btn_enabled = FALSE]
    /\ scenario' = NewScenario
    /\ out' = [NoOut EXCEPT
                 !.op = "on_stage_event",
                 !.calls = (IF ui.world # None THEN <<"clear_instance">> ELSE <<>>)
                           \o (IF ui.built THEN <<"btn.reset">> ELSE <<>>)]
    /\ UNCHANGED <<remembered, blocking>>

\* the state button's physics callback: _update_scenario(step) on every
\* physics step while the button shows STOP and the timeline plays
PhysicsStep(step, c) ==
    /\ ui.built /\ ui.btn_state = "B" /\ ui.timeline_playing
    /\ InBounds(scenario, step)
    /\ LET r == Update(scenario, step,
                       Reading(scenario.articulation.num_dof, c))
       IN  scenario' = r.s /\ out' = r.o
    /\ UNCHANGED <<ui, remembered, blocking>>

\* _execute_phase(step) called on a scenario that has been set up
ExecutePhaseCall(step, c) ==
    /\ ~scenario.positions.is_none
    /\ out' = [ExecutePhase(scenario.phase, scenario.phase_time,
                            scenario.positions, step,
                            Reading(scenario.articulation.num_dof, c))
                 EXCEPT !.op = "_execute_phase"]
    /\ UNCHANGED <<scenario, ui, remembered, blocking>>

\* observer: keep the command just issued, with the phase, phase time and
\* endpoint vectors it was computed from
Remember ==
    /\ ~remembered.set
    /\ out.has_target
    /\ remembered' = [set |-> TRUE, positions |-> scenario.positions,
                      phase |-> scenario.phase,
                      phase_time |-> scenario.phase_time,
                      step |-> out.step, target |-> out.target]
    /\ UNCHANGED <<scenario, ui, out, blocking>>

\* update_scenario(step) called by a host that goes on while the scenario
\* runs, joints all reading c
HostUpdate(step, c) ==
    /\ scenario.running_scenario
    /\ scenario.time + step <= MaxLiveHalfSec * 500
    /\ LET r == Update(scenario, step,
                       Reading(scenario.articulation.num_dof, c))
       IN  scenario' = r.s /\ out' = r.o
    /\ UNCHANGED <<ui, remembered, blocking>>

\* ------------------------------- the blocking scenario's update_scenario
\* update_scenario() is entered: the loop starts at the first cube
BlockingUpdateStart ==
    /\ blocking.pc = "idle"
    /\ blocking' = [blocking EXCEPT !.pc = "move_to_cube", !.i = 1,
                                    !.last = "start"]
    /\ UNCHANGED <<scenario, ui, out, remembered>>

\* cube_pos = cube.get_world_pose()[0]; self._move_arm_to(cube_pos)
BlockingMoveToCube ==
    /\ blocking.pc = "move_to_cube"
    /\ blocking' = [MoveArmTo(blocking, blocking.pose[blocking.i]) EXCEPT
                      !.pc = "pick", !.last = "move_to_cube"]
    /\ UNCHANGED <<scenario, ui, out, remembered>>

\* self._pick_cube(cube)
BlockingPick ==
    /\ blocking.pc = "pick"
    /\ blocking' = [PickCube(blocking, blocking.i) EXCEPT
                      !.pc = "move_to_target", !.last = "pick"]
    /\ UNCHANGED <<scenario, ui, out, remembered>>

\* self._move_arm_to(target_pos)
BlockingMoveToTarget ==
    /\ blocking.pc = "move_to_target"
    /\ blocking' = [MoveArmTo(blocking, TargetPositions[blocking.i]) EXCEPT
                      !.pc = "place", !.last = "move_to_target"]
    /\ UNCHANGED <<scenario, ui, out, remembered>>

\* self._place_cube(cube, target_pos), then the next pair of the zip, or
\* the return of update_scenario after the last one
BlockingPlace ==
    /\ blocking.pc = "place"
    /\ LET b == PlaceCube(blocking, blocking.i, TargetPositions[blocking.i])
       IN  blocking' =
             IF blocking.i < Min(Len(CubePaths), Len(TargetPositions))
             THEN [b EXCEPT !.pc = "move_to_cube", !.i = @ + 1,
                            !.last = "place"]
             ELSE [b EXCEPT !.pc = "idle", !.last = "place"]
    /\ UNCHANGED <<scenario, ui, out, remembered>>

\* ---------------------------------------------------------- specifications
\* the ExampleScenario object under any sequence of calls of its methods
Next ==
    \/ \E n \in DofSamples : SetupScenario(n)
    \/ TeardownScenario
    \/ \E step \in StepSamples, c \in CurValues : UpdateScenario(step, c)

Spec == Init /\ [][Next]_vars

\* the extension: the UIBuilder's handlers driving the scenario
NextUI ==
    \/ BuildUI
    \/ \E n \in DofSamples : OnLoadWorld(n)
    \/ OnResetWorld
    \/ ResetScenario
    \/ RunClickA
    \/ RunClickB
    \/ OnTimelineStop
    \/ OnStageOpened
    \/ \E step \in StepSamples, c \in CurValues : PhysicsStep(step, c)

SpecUI == Init /\ [][NextUI]_vars

\* _execute_phase as a function of the fields it reads: every phase, phase
\* times on the 250 ms grid from -1000 to 3000, every DOF count
InitExec ==
    /\ \E n \in DofSamples, ph \in 0..7, k \in -4..12, g \in BOOLEAN :
         scenario = [Setup(NewScenario, Art(n), "cuboid") EXCEPT
                       !.phase = ph, !.phase_time = k * 250,
                       !.cube_grasped = g]
    /\ ui = InitUI
    /\ out = NoOut
    /\ remembered = NoMemory
    /\ blocking = NewBlocking

NextExec == \E step \in StepSamples, c \in CurValues : ExecutePhaseCall(step, c)

SpecExec == InitExec /\ [][NextExec]_vars

\* two runs of one scenario object (6 joints), the first one's command kept
NextDet ==
    \/ SetupScenario(6)
    \/ TeardownScenario
    \/ \E step \in DetSteps, c \in CurValues : UpdateScenario(step, c)
    \/ Remember

SpecDet == Init /\ [][NextDet]_vars

\* after setup_scenario the host calls update_scenario for ever: now and
\* then with a step of zero, again and again with a positive step
InitLive ==
    /\ \E n \in DofSamples :
         /\ scenario = Setup(NewScenario, Art(n), "cuboid")
         /\ out = SetupOut(Art(n))
    /\ ui = InitUI
    /\ remembered = NoMemory
    /\ blocking = NewBlocking

PositiveUpdate == \E step \in PositiveSteps, c \in CurValues : HostUpdate(step, c)

ZeroUpdate == \E c \in CurValues : HostUpdate(0, c)

NextLive == PositiveUpdate \/ ZeroUpdate

SpecLive == InitLive /\ [][NextLive]_vars /\ WF_vars(PositiveUpdate)

\* the blocking scenario: any scene, any robot, update_scenario called
\* again and again
InitBlocking ==
    /\ scenario = NewScenario
    /\ ui = InitUI
    /\ out = NoOut
    /\ remembered = NoMemory
    /\ \E n \in DofSamples, poses \in [1..4 -> PoseSamples] :
         blocking = BlockingScenario(n, poses)

NextBlocking ==
    \/ BlockingUpdateStart
    \/ BlockingMoveToCube
    \/ BlockingPick
    \/ BlockingMoveToTarget
    \/ BlockingPlace

SpecBlocking == InitBlocking /\ [][NextBlocking]_vars

\* ================================================================ claims
SeqRange(q) == {q[i] : i \in 1..Len(q)}

\* the call issued no motion command and did not move the cube
NoCommands(o) ==
    /\ "apply_action" \notin SeqRange(o.calls)
    /\ "set_world_pose" \notin SeqRange(o.calls)

IsReset(o) == o.op \in {"setup_scenario", "teardown_scenario"}

\* C1 (as stated): the update_scenario call that raises the phase to 7 sets
\* _running_scenario to false and issues no command, and from then on the
\* phase stays 7 and no command is issued in any step that is not a
\* setup_scenario call.
C1_TerminalUntilSetup ==
    [][/\ (scenario.phase # 7 /\ scenario'.phase = 7)
            => (~scenario'.running_scenario /\ NoCommands(out'))
       /\ (scenario.phase = 7 /\ out'.op # "setup_scenario")
            => (scenario'.phase = 7 /\ NoCommands(out'))]_vars

\* C1 (amended): as above, but the phase stays 7 until setup_scenario or
\* teardown_scenario is called; every update_scenario call in phase 7
\* leaves the phase at 7, the scenario stopped and issues no command.
C1_TerminalUntilReset ==
    [][/\ (scenario.phase # 7 /\ scenario'.phase = 7)
            => (/\ out'.op = "update_scenario"
                /\ ~scenario'.running_scenario
                /\ NoCommands(out'))
       /\ (scenario.phase = 7 /\ ~IsReset(out'))
            => (/\ scenario'.phase = 7
                /\ ~scenario'.running_scenario
                /\ NoCommands(out'))]_vars

\* C1 witness: an update_scenario call made after completion (it prints
\* nothing), with the phase still 7.
C1_Witness ==
    /\ scenario.phase = 7
    /\ ~scenario.running_scenario
    /\ out.op = "update_scenario"
    /\ out.step = 4500
    /\ out.printed = <<>>

\* C2: while running, update_scenario(step) changes the phase iff
\* _phase_time + step >= _phase_duration; it then adds exactly one and
\* resets _phase_time to 0, whatever the step size; no update call lowers
\* the phase or skips a value.
C2_PhaseAdvance ==
    [][(out'.op = "update_scenario")
         => /\ scenario'.phase \in {scenario.phase, scenario.phase + 1}
            /\ scenario.running_scenario
                 => /\ (scenario'.phase # scenario.phase)
                         <=> (scenario.phase_time + out'.step >= 2000)
                    /\ (scenario'.phase # scenario.phase)
                         => scenario'.phase_time = 0
                    /\ (scenario'.phase = scenario.phase)
                         => scenario'.phase_time
                              = scenario.phase_time + out'.step]_vars

\* C2 witness: a step of 4.5 s (more than two phase durations) has moved
\* the scenario from phase 0 to phase 1 only, with _phase_time back at 0.
C2_Witness ==
    /\ out.op = "update_scenario"
    /\ out.step = 4500
    /\ scenario.time = 4500
    /\ scenario.phase = 1
    /\ scenario.phase_time = 0

\* C3: every joint velocity passed to apply_action lies in [-2.0, 2.0]
\* rad/s, for every phase, reading and step, zero and negative steps
\* included.
C3_VelocityClamped ==
    ("apply_action" \in SeqRange(out.calls))
      => \A i \in DOMAIN out.velocity :
            out.velocity[i] >= -2000 /\ out.velocity[i] <= 2000

\* C3 witness: a command issued on a negative step whose velocity was cut
\* at both ends of the range.
C3_Witness ==
    /\ "apply_action" \in SeqRange(out.calls)
    /\ out.step < 0
    /\ \E i \in DOMAIN out.velocity : out.velocity[i] = -2000
    /\ \E i \in DOMAIN out.velocity : out.velocity[i] = 2000

\* the start and end configuration the claim gives for each phase 0..6
ClaimedStart == <<"home", "pre_grasp", "grasp", "grasp", "lift", "place", "place">>
ClaimedEnd == <<"pre_grasp", "grasp", "grasp", "lift", "place", "place", "home">>

\* C4: for phases 0..6 the target _execute_phase computes at t = 0 is the
\* phase's start configuration and at t = 1 its end configuration.
C4_Endpoints ==
    (out.op = "_execute_phase" /\ out.has_target /\ scenario.phase \in 0..6)
      => /\ out.t = 0
              => out.target = scenario.positions[ClaimedStart[scenario.phase + 1]]
         /\ out.t = 1000
              => out.target = scenario.positions[ClaimedEnd[scenario.phase + 1]]

\* C4 witness: phase 4 evaluated at t = 1 on a 6-joint robot commands the
\* place configuration.
C4_Witness ==
    /\ out.op = "_execute_phase"
    /\ scenario.phase = 4
    /\ out.t = 1000
    /\ out.has_target
    /\ out.target = <<1000, -300, 300, 0, 800, 0>>

\* C5 (as stated): the progress t used by every update_scenario call that
\* executes a phase satisfies 0 <= t <= 1, whatever steps the host passed,
\* negative ones included.
C5_ProgressInUnitInterval ==
    (out.op = "update_scenario" /\ out.has_t)
      => (out.t >= 0 /\ out.t <= 1000)

\* C6: the phase index is always in 0..7; while the scenario is running,
\* and whenever _execute_phase is entered or a command is issued, it is in
\* 0..6, so the fallback branch for phase > 6 is never taken.
C6_PhaseRange ==
    /\ scenario.phase \in 0..7
    /\ scenario.running_scenario => scenario.phase \in 0..6
    /\ (out.op = "update_scenario" /\ (out.has_t \/ ~NoCommands(out)))
         => scenario.phase \in 0..6

\* C6 witness: the last phase, 6, running and commanding the robot.
C6_Witness ==
    /\ scenario.phase = 6
    /\ scenario.running_scenario
    /\ out.op = "update_scenario"
    /\ "apply_action" \in SeqRange(out.calls)

\* the update_scenario call that printed 'Pick and Place Complete!'
CompletedNow ==
    /\ out.op = "update_scenario"
    /\ "Pick and Place Complete!" \in SeqRange(out.printed)

C8_TargetDeterministic ==
    (/\ remembered.set
     /\ out.op = "update_scenario"
     /\ out.has_target
     /\ remembered.positions = scenario.positions
     /\ remembered.phase = scenario.phase
     /\ remembered.phase_time = scenario.phase_time)
      => out.target = remembered.target

\* C8 witness: the remembered command and the present one agree on phase 2
\* at phase time 0, but were reached with different steps and the present
\* one was issued against a different reading (its velocity shows it).
C8_Witness ==
    /\ remembered.set
    /\ out.op = "update_scenario"
    /\ out.has_target
    /\ remembered.positions = scenario.positions
    /\ remembered.phase = 2 /\ scenario.phase = 2
    /\ remembered.phase_time = 0 /\ scenario.phase_time = 0
    /\ remembered.step = 2000 /\ out.step = 4500
    /\ scenario.time = 9000
    /\ out.velocity[1] < 0

\* C9: with objects unset the UI only prints a warning: _reset_scenario
\* with _articulation or _cuboid None calls neither teardown_scenario nor
\* setup_scenario and changes nothing; _on_reset_world with _world None
\* leaves the world, the scenario and the Run button unchanged.
C9_UnsetOnlyWarns ==
    [][/\ (out'.op = "_reset_scenario"
             /\ (ui.articulation.is_none \/ ui.cuboid = None))
            => /\ scenario' = scenario
               /\ ui' = ui
               /\ out'.calls = <<>>
               /\ out'.printed
                    = <<"Warning: Cannot reset scenario - objects not loaded">>
       /\ (out'.op = "_on_reset_world" /\ ui.world = None)
            => /\ scenario' = scenario
               /\ ui' = ui
               /\ out'.calls = <<>>
               /\ out'.printed = <<"World not loaded yet!">>]_vars

\* C9 witness: _reset_scenario has just printed its warning, objects unset,
\* the widgets built.
C9_Witness ==
    /\ out.op = "_reset_scenario"
    /\ ui.built
    /\ ui.articulation.is_none
    /\ out.printed = <<"Warning: Cannot reset scenario - objects not loaded">>
    /\ scenario = NewScenario

\* C10 (as stated): after _on_load_world the Run Scenario button is enabled
\* and in its RUN state, and the RESET button is enabled.
C10_LoadEnablesButtons ==
    (out.op = "_on_load_world")
      => /\ ui.btn_enabled
         /\ ui.btn_state = "A"
         /\ ui.reset_btn_enabled

\* C11: for every progress t in [0, 1] that _execute_phase passes to
\* _interpolate_positions, smooth_t(t) + smooth_t(1 - t) = 1 and
\* smooth_t(u) <= smooth_t(t) for every u <= t of [0, 1]; the value
\* commanded for joint 0 in phase 4 (which goes from 0 to 1 rad) is
\* smooth_t(t) itself.
C11_SmoothMonotoneSymmetric ==
    (out.op = "_execute_phase" /\ out.has_t /\ out.t \in 0..1000) =>
        /\ SmoothT2(out.t) + SmoothT2(1000 - out.t) = 20000
        /\ \A k \in 0..8 :
             k * 125 <= out.t => SmoothT2(k * 125) <= SmoothT2(out.t)
        /\ (scenario.phase = 4 /\ out.has_target /\ Len(out.target) >= 1) =>
             /\ out.target[1] * 20000 <= 1000 * SmoothT2(out.t)
             /\ 1000 * SmoothT2(out.t) < (out.target[1] + 1) * 20000

\* phase 4 called three eighths into the phase on the six-joint robot
C11_Witness ==
    /\ out.op = "_execute_phase"
    /\ out.has_target
    /\ out.t = 375
    /\ scenario.phase = 4
    /\ scenario.articulation.num_dof = 6
    /\ out.target[1] = 308

\* update_scenario of the blocking scenario has returned
BlockingReturned == blocking.pc = "idle" /\ blocking.last = "place"

\* C12: update_scenario of the blocking scenario takes the cubes in list
\* order, and for each one moves to the cube, creates the fixed joint, moves
\* to the target, then removes the joint and sets the pose; so at most one
\* cube is attached at any time, a joint is removed only after it was
\* created, and at the return no joint is left and each of the four cubes
\* is at its own target.
C12_BlockingOrder ==
    [][ /\ (blocking'.last = "move_to_cube") =>
              /\ \/ blocking.last = "start" /\ blocking'.i = 1
                 \/ blocking.last = "place" /\ blocking'.i = blocking.i
              /\ blocking'.moved_to = blocking.pose[blocking'.i]
              /\ blocking'.joints = blocking.joints
        /\ (blocking'.last = "pick") =>
              /\ blocking.last = "move_to_cube"
              /\ blocking'.i = blocking.i
              /\ blocking'.joints = blocking.joints \cup {blocking.i}
              /\ blocking'.pose = blocking.pose
        /\ (blocking'.last = "move_to_target") =>
              /\ blocking.last = "pick"
              /\ blocking'.i = blocking.i
              /\ blocking'.moved_to = TargetPositions[blocking.i]
              /\ blocking'.joints = blocking.joints
        /\ (blocking'.last = "place") =>
              /\ blocking.last = "move_to_target"
              /\ blocking.i \in blocking.joints
              /\ blocking'.joints = blocking.joints \ {blocking.i}
              /\ blocking'.pose[blocking.i] = TargetPositions[blocking.i]
              /\ blocking'.pc = "move_to_cube" => blocking'.i = blocking.i + 1
        /\ Cardinality(blocking'.joints) <= 1
        /\ (blocking'.pc = "idle" /\ blocking'.last = "place") =>
              /\ blocking.i = 4
              /\ blocking'.joints = {}
              /\ \A k \in 1..4 : blocking'.pose[k] = TargetPositions[k]
      ]_vars

\* update_scenario has returned after the fourth cube, on the robot with
\* seven joints
C12_Witness ==
    /\ BlockingReturned
    /\ blocking.i = 4
    /\ blocking.moved_to = TargetPositions[4]
    /\ blocking.num_joints = 7

\* the handler just run went through teardown_scenario and setup_scenario
ResetDone(o) ==
    /\ "teardown_scenario" \in SeqRange(o.calls)
    /\ "setup_scenario" \in SeqRange(o.calls)

\* C13: whatever state the scenario was in, after a handler has run
\* _reset_scenario's teardown and setup the scenario is in the state that
\* setup_scenario gives a new object: phase 0, _phase_time 0, _time 0,
\* _cube_grasped false, _running_scenario true, and the joints were set to
\* the home position.
C13_ResetYieldsInitial ==
    ResetDone(out) =>
        /\ scenario.phase = 0
        /\ scenario.phase_time = 0
        /\ scenario.time = 0
        /\ ~scenario.cube_grasped
        /\ scenario.running_scenario
        /\ scenario = Setup(NewScenario, ui.articulation, ui.cuboid)
        /\ "set_joint_positions" \in SeqRange(out.calls)
        /\ out.joints_set = [i \in 1..ui.articulation.num_dof |-> 0]

\* RESET clicked while the state button shows STOP and the timeline plays
C13_Witness ==
    /\ out.op = "_on_reset_world"
    /\ ResetDone(out)
    /\ ui.timeline_playing
    /\ scenario.running_scenario
    /\ scenario.articulation.num_dof = 6

\* C14: an update_scenario call made while _running_scenario is false
\* changes no field of the scenario, makes no call on the articulation or
\* the cube, commands nothing, prints nothing and raises nothing.
C14_IdleUpdateIsNoOp ==
    [][ (~scenario.running_scenario /\ out'.op = "update_scenario") =>
            /\ scenario' = scenario
            /\ out'.calls = <<>>
            /\ out'.printed = <<>>
            /\ out'.raised = "none"
            /\ ~out'.has_target
      ]_vars

\* update_scenario(4.5) on a scenario that was set up and torn down
C14_Witness ==
    /\ out.op = "update_scenario"
    /\ out.step = 4500
    /\ ~scenario.running_scenario
    /\ scenario.articulation.is_none
    /\ ~scenario.positions.is_none
    /\ scenario.time = 0

\* C15: between calls _cube_grasped is true exactly in phases 2, 3 and 4,
\* and an update_scenario call that wrote the cube's pose ended in one of
\* those phases.
C15_GraspedIffCarrying ==
    /\ scenario.cube_grasped <=> scenario.phase \in {2, 3, 4}
    /\ (out.op = "update_scenario" /\ "set_world_pose" \in SeqRange(out.calls))
          => scenario.phase \in 2..4

\* the update that enters phase 2 writes the cube's pose
C15_Witness ==
    /\ out.op = "update_scenario"
    /\ scenario.phase = 2
    /\ scenario.phase_time = 0
    /\ scenario.cube_grasped
    /\ "set_world_pose" \in SeqRange(out.calls)

\* C16: for k in 0..5 the target of phase k at t = 1 is the target of
\* phase k+1 at t = 0, the target of phase 6 at t = 1 is the home position,
\* and the target computed by the update that takes the phase from k to
\* k+1 is the end configuration of phase k.
C16_ContinuousAcrossPhases ==
    [][ /\ ~scenario.positions.is_none =>
              /\ \A k \in 0..5 :
                   LET a == ExecTarget(k, scenario.positions, 1000)
                       b == ExecTarget(k + 1, scenario.positions, 0)
                   IN  (a.ok /\ b.ok) => a.val = b.val
              /\ LET z == ExecTarget(6, scenario.positions, 1000)
                 IN  z.ok => z.val = scenario.positions.home
        /\ ( /\ out'.op = "update_scenario"
             /\ scenario'.phase = scenario.phase + 1
             /\ out'.has_target ) =>
              /\ scenario.phase \in 0..5
              /\ out'.t = 0
              /\ out'.target = scenario.positions[ClaimedEnd[scenario.phase + 1]]
      ]_vars

\* the update that enters phase 4 commands the lift pose, where phase 3 ends
C16_Witness ==
    /\ out.op = "update_scenario"
    /\ scenario.phase = 4
    /\ scenario.phase_time = 0
    /\ scenario.articulation.num_dof = 6
    /\ out.has_target
    /\ out.target = scenario.positions.lift
    /\ "apply_action" \in SeqRange(out.calls)

\* C17: a host that keeps calling update_scenario with steps of at least
\* 1 s after setup_scenario sees the scenario complete (_running_scenario
\* false at phase 7); an update with a step of zero never changes the phase
\* and never completes the scenario.
C17_EventuallyCompletes ==
    /\ <>(~scenario.running_scenario /\ scenario.phase = 7)
    /\ [][ (out'.op = "update_scenario" /\ out'.step = 0) =>
              /\ scenario'.phase = scenario.phase
              /\ scenario'.running_scenario = scenario.running_scenario
         ]_vars

\* completed after the longest run the steps allow: one step of 1 s and
\* one of 4.5 s in each of the seven phases
C17_Witness ==
    /\ ~scenario.running_scenario
    /\ scenario.phase = 7
    /\ scenario.time = 38500
    /\ out.op = "update_scenario"

\* C18 (as stated): the five joint configurations stored by setup_scenario
\* all have the robot's num_dof entries, and no update_scenario fails on
\* vectors of different lengths.
C18_ConfigLengths ==
    /\ scenario.running_scenario =>
          \A f \in {"home", "pre_grasp", "grasp", "lift", "place"} :
              Len(scenario.positions[f]) = scenario.articulation.num_dof
    /\ out.raised # "ValueError"

\* the world handles of the UIBuilder are all set
WorldLoaded(u) ==
    u.world # None /\ ~u.articulation.is_none /\ u.cuboid # None

\* C19: after any handler the Run Scenario button is enabled only if
\* _world, _articulation and _cuboid are set and the scenario was set up
\* with them; after a timeline STOP event and after a stage OPENED event
\* the button shows RUN and is disabled; a stage OPENED event calls
\* clear_instance on the world it had and leaves a new scenario that is not
\* running.
C19_ButtonEnabledOnlyLoaded ==
    [][ /\ ui'.btn_enabled =>
              /\ WorldLoaded(ui')
              /\ ~scenario'.positions.is_none
              /\ scenario'.articulation = ui'.articulation
              /\ scenario'.object = ui'.cuboid
        /\ (out'.op = "on_timeline_event") =>
              ~ui'.btn_enabled /\ ui'.btn_state = "A"
        /\ (out'.op = "on_stage_event") =>
              /\ ~ui'.btn_enabled /\ ui'.btn_state = "A"
              /\ ui'.world = None
              /\ ui.world # None => "clear_instance" \in SeqRange(out'.calls)
              /\ ~scenario'.running_scenario
              /\ scenario'.positions.is_none
              /\ scenario'.articulation.is_none
              /\ scenario'.phase = 0 /\ scenario'.time = 0
      ]_vars

\* a stage was opened over a loaded world
C19_Witness ==
    /\ out.op = "on_stage_event"
    /\ "clear_instance" \in SeqRange(out.calls)
    /\ "btn.reset" \in SeqRange(out.calls)
    /\ ~ui.btn_enabled
    /\ ui.world = None

====
